---- MODULE Spec2Model ----
(***************************************************************************)
(* Model of app.py: the emergency-resource locator.                        *)
(*                                                                         *)
(*   - module import (lines 13-27): loading of the optional C library;     *)
(*   - get_resources (lines 66-117): one process per request, one action   *)
(*     per statement group, exceptions routed to the except clause;        *)
(*   - health_check (lines 120-126);                                       *)
(*   - calculate_distance_python (lines 37-55), computed step by step.     *)
(*                                                                         *)
(* Floating point.  Python floats are IEEE-754 doubles: every operation    *)
(* returns the representable number nearest to the exact result (ties to   *)
(* even).  The model keeps that rule and narrows the format: a float is an *)
(* integer count of 1/One (One = 1.0, 8 fractional bits instead of 52).    *)
(* math.sin, math.cos, math.sqrt and math.atan2 return the nearest         *)
(* representable value of the exact result, as the C library does;         *)
(* math.sqrt raises ValueError on a negative argument.                     *)
(* Angles in radians are counted in units of pi/360, so that halving the   *)
(* difference of two whole-degree coordinates is exact.                    *)
(***************************************************************************)
EXTENDS Integers, Sequences, FiniteSets, TLC

-----------------------------------------------------------------------------
(* Bounds of the model *)

\* longest table "resources" the single-request specification fetches
MaxRows == 11
\* number of concurrent requests in the concurrent specification
NumThreads == 2
\* longest table "resources" in the concurrent specification
MaxRowsConc == 2

-----------------------------------------------------------------------------
(* math: radians, sin, cos, sqrt, atan2 *)

\* sin of k*pi/360 for k = 0..180, index k+1, in units of 1/256
SinTable ==
   << 0, 2, 4, 7, 9, 11, 13, 16, 18, 20, 22, 25, 27, 29, 31,
      33, 36, 38, 40, 42, 44, 47, 49, 51, 53, 55, 58, 60, 62, 64,
      66, 68, 71, 73, 75, 77, 79, 81, 83, 85, 88, 90, 92, 94, 96,
      98, 100, 102, 104, 106, 108, 110, 112, 114, 116, 118, 120, 122, 124, 126,
      128, 130, 132, 134, 136, 138, 139, 141, 143, 145, 147, 149, 150, 152, 154,
      156, 158, 159, 161, 163, 165, 166, 168, 170, 171, 173, 175, 176, 178, 179,
      181, 183, 184, 186, 187, 189, 190, 192, 193, 195, 196, 198, 199, 200, 202,
      203, 204, 206, 207, 208, 210, 211, 212, 213, 215, 216, 217, 218, 219, 221,
      222, 223, 224, 225, 226, 227, 228, 229, 230, 231, 232, 233, 234, 235, 236,
      237, 237, 238, 239, 240, 241, 241, 242, 243, 243, 244, 245, 245, 246, 247,
      247, 248, 248, 249, 249, 250, 250, 251, 251, 252, 252, 252, 253, 253, 254,
      254, 254, 254, 255, 255, 255, 255, 255, 256, 256, 256, 256, 256, 256, 256,
      256 >>

\* the float 1.0
One == SinTable[181]

\* atan of i/16 for i = 0..16, index i+1, in units of 1/256
AtanTable ==
   << 0, 16, 32, 47, 63, 78, 92, 106, 119, 131, 143, 154, 165, 175, 184, 193, 201 >>

\* number of steps of AtanTable on [0, 1]
AtanSteps == Len(AtanTable) - 1

\* pi/2 in units of 1/256
HalfPi == 2 * AtanTable[AtanSteps + 1]

\* n/d rounded to the nearest integer, ties to even (d > 0)
RoundDiv(n, d) ==
   LET q == n \div d
       r == n % d
   IN  IF 2 * r > d \/ (2 * r = d /\ q % 2 = 1) THEN q + 1 ELSE q

\* float multiplication x * y
Mul(x, y) == RoundDiv(x * y, One)

\* math.radians: degrees to radians (units of pi/360)
Radians(deg) == (deg * 360) \div 180

\* math.sin
Sin(u) ==
   LET m == u % 720
   IN  IF m <= 180 THEN SinTable[m + 1]
       ELSE IF m <= 360 THEN SinTable[360 - m + 1]
       ELSE IF m <= 540 THEN 0 - SinTable[m - 360 + 1]
       ELSE 0 - SinTable[720 - m + 1]

\* math.cos
Cos(u) == Sin(u + 180)

\* the greatest r in lo..hi with r - 1/2 <= sqrt(x), by bisection
RECURSIVE SqrtBetween(_, _, _)
SqrtBetween(x, lo, hi) ==
   IF lo = hi THEN lo
   ELSE LET mid == (lo + hi + 1) \div 2
        IN  IF (2 * mid - 1) * (2 * mid - 1) <= 4 * x * One
            THEN SqrtBetween(x, mid, hi)
            ELSE SqrtBetween(x, lo, mid - 1)

\* math.sqrt of x >= 0, rounded to nearest (the caller raises ValueError
\* when x < 0)
Sqrt(x) == SqrtBetween(x, 0, 2 * One)

\* math.atan2(y, x) for y >= 0, x >= 0, not both 0
Atan2(y, x) ==
   IF y <= x
   THEN AtanTable[RoundDiv(y * AtanSteps, x) + 1]
   ELSE HalfPi - AtanTable[RoundDiv(x * AtanSteps, y) + 1]

-----------------------------------------------------------------------------
(* Values: what a JSON field or a table column can hold *)

None == [kind |-> "none", v |-> 0]
Num(n) == [kind |-> "num", v |-> n]
Str == [kind |-> "str", v |-> 0]

\* the outcome of a call: the exception's message ("" when none), else the value
Return(x) == [raised |-> "", value |-> x]
Raise(msg) == [raised |-> msg, value |-> 0]

\* R = 6371.0, in kilometres
R == 6371

\* the Haversine intermediate a (line 51) of four numbers in degrees
HaversineA(lat1, lon1, lat2, lon2) ==
   LET lat1_rad == Radians(lat1)
       lon1_rad == Radians(lon1)
       lat2_rad == Radians(lat2)
       lon2_rad == Radians(lon2)
       dlat == lat2_rad - lat1_rad
       dlon == lon2_rad - lon1_rad
       sdlat == Sin(dlat \div 2)
       sdlon == Sin(dlon \div 2)
   IN  Mul(sdlat, sdlat) + Mul(Mul(Cos(lat1_rad), Cos(lat2_rad)), Mul(sdlon, sdlon))

\* lines 52-54: c = 2 * atan2(sqrt(a), sqrt(1 - a)); distance = R * c
\* (in units of 1/256 km), for 0 <= a <= 1
DistanceOfA(a) == R * (2 * Atan2(Sqrt(a), Sqrt(One - a)))

\* calculate_distance_python: math.radians raises TypeError on a string,
\* math.sqrt raises ValueError on a negative number
calculate_distance_python(lat1, lon1, lat2, lon2) ==
   IF \E x \in {lat1, lon1, lat2, lon2} : x.kind # "num"
   THEN Raise("must be real number, not str")
   ELSE LET a == HaversineA(lat1.v, lon1.v, lat2.v, lon2.v)
        IN  IF a < 0 \/ One - a < 0
            THEN Raise("math domain error")
            ELSE Return(DistanceOfA(a))

\* distance_lib.haversine_distance: the compiled routine.  Its arguments are
\* converted to c_double (ctypes raises ArgumentError on a string); the
\* routine clamps the intermediate to [0, 1] and agrees with the portable one.
haversine_distance(lat1, lon1, lat2, lon2) ==
   IF \E x \in {lat1, lon1, lat2, lon2} : x.kind # "num"
   THEN Raise("argument 1: TypeError: wrong type")
   ELSE LET a == HaversineA(lat1.v, lon1.v, lat2.v, lon2.v)
            h == IF a < 0 THEN 0 ELSE IF a > One THEN One ELSE a
        IN  Return(DistanceOfA(h))

\* calculate_distance: the C library when distance_lib is truthy
calculate_distance(lib, lat1, lon1, lat2, lon2) ==
   IF lib # "None"
   THEN haversine_distance(lat1, lon1, lat2, lon2)
   ELSE calculate_distance_python(lat1, lon1, lat2, lon2)

-----------------------------------------------------------------------------
(* The table "resources" *)

\* the places facilities are at: <<latitude, longitude>> in degrees
Locs == << <<0, 20>>, <<0, -20>>, <<30, 30>>, <<82, 0>> >>
Names == << "General Hospital", "Fire Station", "Police Post", "Arctic Shelter" >>
Types == << "hospital", "fire", "police", "shelter" >>
Addresses == << "1 Main St", "2 Oak Ave", "3 Hill Rd", "4 Ice Way" >>
Phones == << "555-0101", "555-0102", "555-0103", "555-0104" >>

\* the row with rowid i, at place k
Facility(i, k) ==
   [id |-> i, name |-> Names[k], type |-> Types[k],
    address |-> Addresses[k], phone |-> Phones[k],
    latitude |-> Num(Locs[k][1]), longitude |-> Num(Locs[k][2])]

\* a table of n rows; row i is at place 1 + ((i-1)*stride mod Len(Locs))
Table(n, stride) ==
   [i \in 1..n |-> Facility(i, 1 + (((i - 1) * stride) % Len(Locs)))]

Strides == {0, 1, 3}

Tables(max) == {Table(n, s) : n \in 0..max, s \in Strides}

-----------------------------------------------------------------------------
(* Requests *)

\* request bodies: unparsable, the JSON value null, or an object
Malformed == [kind |-> "malformed", latitude |-> None, longitude |-> None]
Null == [kind |-> "null", latitude |-> None, longitude |-> None]
Object(lat, lon) == [kind |-> "object", latitude |-> lat, longitude |-> lon]

Bodies ==
   {Malformed, Null,
    Object(None, Num(0)), Object(Num(0), None),
    Object(Str, Num(0)), Object(Num(0), Str),
    Object(Num(0), Num(0)), Object(Num(-82), Num(-180)), Object(Num(40), Num(-74))}

\* the bodies sent in the concurrent specification
ConcBodies ==
   {Malformed, Object(Str, Num(0)),
    Object(Num(0), Num(0)), Object(Num(-82), Num(-180))}

\* the responses of get_resources
NoLocation == <<None, None>>
Success(lat, lon, list) ==
   [status |-> 200, success |-> TRUE, error |-> "",
    user_location |-> <<lat, lon>>, resources |-> list]
Failure(code, msg) ==
   [status |-> code, success |-> FALSE, error |-> msg,
    user_location |-> NoLocation, resources |-> <<>>]

\* MakeEntry with 'latitude' read from the wrong column
MakeEntrySwapped(resource, distance) ==
   [id |-> resource.id, name |-> resource.name, type |-> resource.type,
    address |-> resource.address, phone |-> resource.phone,
    latitude |-> resource.longitude, longitude |-> resource.longitude,
    distance |-> distance]

\* lines 93-102: the dictionary appended for a row
MakeEntry(resource, distance) ==
   [id |-> resource.id, name |-> resource.name, type |-> resource.type,
    address |-> resource.address, phone |-> resource.phone,
    latitude |-> resource.latitude, longitude |-> resource.longitude,
    distance |-> distance]

\* list.insert, after the first k elements
InsertAt(s, k, e) == SubSeq(s, 1, k) \o <<e>> \o SubSeq(s, k + 1, Len(s))

\* StablePlace of an unstable sort: before the elements of equal key
UnstablePlace(s, e) == Cardinality({i \in 1..Len(s) : s[i].distance < e.distance})

\* where a stable sort places e in the sorted list s: after every element
\* whose key is not greater
StablePlace(s, e) == Cardinality({i \in 1..Len(s) : s[i].distance <= e.distance})

RECURSIVE SortPrefix(_, _)
SortPrefix(s, n) ==
   IF n = 0 THEN <<>>
   ELSE LET t == SortPrefix(s, n - 1)
        IN  InsertAt(t, StablePlace(t, s[n]), s[n])

\* SortByDistance with the sort left out
Unsorted(s) == s

\* line 105: list.sort(key=lambda x: x['distance']), a stable sort
SortByDistance(s) == SortPrefix(s, Len(s))

\* the slice bound of line 113
TopN == 10

\* Top with the slice left out
TopAll(s) == s

\* line 113: resources_with_distance[:10]
Top(s) == SubSeq(s, 1, IF Len(s) < TopN THEN Len(s) ELSE TopN)

\* Local with the list kept in one module-level variable
Global(r) == 1

\* line 86: resources_with_distance is a local of the call
Local(r) == r

-----------------------------------------------------------------------------
(* State *)

VARIABLES
   lib_file,       \* ./distance_calculator.so: "absent", "valid", "corrupt", "no_symbol"
   db_status,      \* emergency_resources.db: "ok", "no_table", "unopenable"
   db,             \* the rows of the table "resources", in rowid order
   threads,        \* the requests served
   bodies,         \* the bodies clients send
   proc,           \* the process: "importing", "running", "crashed"
   distance_lib,   \* the module global: "unset", "None", "CDLL"
   health,         \* the last answer of /api/health
   pc,             \* per request: where get_resources is
   data,           \* per request: the body received
   user_lat,       \* per request: data.get('latitude')
   user_lon,       \* per request: data.get('longitude')
   conn,           \* per request: "none", "open", "closed"
   resources,      \* per request: the rows fetched
   fetched,        \* per request: whether the SELECT was executed
   pos,            \* per request: the row the for loop is at
   calls,          \* per request: number of calls of calculate_distance
   rwd,            \* per call: resources_with_distance
   exc,            \* per request: the message of the exception raised
   responses       \* per request: the responses returned

vars == <<lib_file, db_status, db, threads, bodies, proc, distance_lib, health,
          pc, data, user_lat, user_lon, conn, resources, fetched, pos,
          calls, rwd, exc, responses>>

env == <<lib_file, db_status, db, threads, bodies>>
locals == <<data, user_lat, user_lon, conn, resources, fetched, pos, calls, rwd, exc, responses>>

NoHealth == [status |-> "", c_library_loaded |-> FALSE]

InitWith(T, B, max) ==
   /\ lib_file \in {"absent", "valid", "corrupt", "no_symbol"}
   /\ db_status \in {"ok", "no_table", "unopenable"}
   /\ db \in (IF db_status = "ok" THEN Tables(max) ELSE {<<>>})
   /\ threads = T
   /\ bodies = B
   /\ proc = "importing"
   /\ distance_lib = "unset"
   /\ health = NoHealth
   /\ pc = [r \in T |-> "start"]
   /\ data = [r \in T |-> Null]
   /\ user_lat = [r \in T |-> None]
   /\ user_lon = [r \in T |-> None]
   /\ conn = [r \in T |-> "none"]
   /\ resources = [r \in T |-> <<>>]
   /\ fetched = [r \in T |-> FALSE]
   /\ pos = [r \in T |-> 0]
   /\ calls = [r \in T |-> 0]
   /\ rwd = [r \in T |-> <<>>]
   /\ exc = [r \in T |-> ""]
   /\ responses = [r \in T |-> <<>>]

\* one request at a time
Init == InitWith({1}, Bodies, MaxRows)

\* NumThreads requests served concurrently
InitConc == InitWith(1..NumThreads, ConcBodies, MaxRowsConc)

-----------------------------------------------------------------------------
(* Module import, lines 13-27 *)

\* os.path.exists, ctypes.CDLL (OSError when the file does not load) and the
\* binding of haversine_distance (AttributeError when the symbol is missing);
\* an exception at import ends the process
Import ==
   /\ proc = "importing"
   /\ CASE lib_file = "absent" ->
             distance_lib' = "None" /\ proc' = "running"
        [] lib_file = "valid" ->
             distance_lib' = "CDLL" /\ proc' = "running"
        [] lib_file = "corrupt" ->
             distance_lib' = distance_lib /\ proc' = "crashed"
        [] lib_file = "no_symbol" ->
             distance_lib' = "CDLL" /\ proc' = "crashed"
   /\ UNCHANGED <<env, health, pc, locals>>

\* health_check, lines 120-126
health_check ==
   /\ proc = "running"
   /\ health' = [status |-> "healthy", c_library_loaded |-> distance_lib # "None"]
   /\ UNCHANGED <<env, proc, distance_lib, pc, locals>>

-----------------------------------------------------------------------------
(* get_resources, lines 66-117 *)

\* lines 70-75: request.get_json() raises on an unparsable body, data.get
\* raises AttributeError on null; a missing field is answered with 400
ParseRequest(r, body) ==
   /\ proc = "running"
   /\ pc[r] = "start"
   /\ data' = [data EXCEPT ![r] = body]
   /\ CASE body.kind = "malformed" ->
             /\ exc' = [exc EXCEPT ![r] = "400 Bad Request"]
             /\ pc' = [pc EXCEPT ![r] = "except"]
             /\ UNCHANGED <<user_lat, user_lon, responses>>
        [] body.kind = "null" ->
             /\ exc' = [exc EXCEPT ![r] = "'NoneType' object has no attribute 'get'"]
             /\ pc' = [pc EXCEPT ![r] = "except"]
             /\ UNCHANGED <<user_lat, user_lon, responses>>
        [] body.kind = "object" ->
             /\ user_lat' = [user_lat EXCEPT ![r] = body.latitude]
             /\ user_lon' = [user_lon EXCEPT ![r] = body.longitude]
             /\ IF body.latitude = None \/ body.longitude = None
                THEN /\ responses' = [responses EXCEPT ![r] =
                                         Append(@, Failure(400, "Invalid location data"))]
                     /\ pc' = [pc EXCEPT ![r] = "done"]
                ELSE /\ pc' = [pc EXCEPT ![r] = "connect"]
                     /\ UNCHANGED responses
             /\ UNCHANGED exc
   /\ UNCHANGED <<env, proc, distance_lib, health, conn, resources, fetched, pos, calls, rwd>>

\* line 77: get_db_connection(); sqlite3.connect raises when the file cannot
\* be opened
Connect(r) ==
   /\ pc[r] = "connect"
   /\ IF db_status = "unopenable"
      THEN /\ exc' = [exc EXCEPT ![r] = "unable to open database file"]
           /\ pc' = [pc EXCEPT ![r] = "except"]
           /\ UNCHANGED conn
      ELSE /\ conn' = [conn EXCEPT ![r] = "open"]
           /\ pc' = [pc EXCEPT ![r] = "execute"]
           /\ UNCHANGED exc
   /\ UNCHANGED <<env, proc, distance_lib, health, data, user_lat, user_lon,
                  resources, fetched, pos, calls, rwd, responses>>

\* lines 78-82: cursor.execute raises when the table is missing
Execute(r) ==
   /\ pc[r] = "execute"
   /\ IF db_status = "no_table"
      THEN /\ exc' = [exc EXCEPT ![r] = "no such table: resources"]
           /\ pc' = [pc EXCEPT ![r] = "except"]
           /\ UNCHANGED <<resources, fetched>>
      ELSE /\ resources' = [resources EXCEPT ![r] = db]
           /\ fetched' = [fetched EXCEPT ![r] = TRUE]
           /\ pc' = [pc EXCEPT ![r] = "close"]
           /\ UNCHANGED exc
   /\ UNCHANGED <<env, proc, distance_lib, health, data, user_lat, user_lon,
                  conn, pos, calls, rwd, responses>>

\* lines 83-86: conn.close(); resources_with_distance = []
Close(r) ==
   /\ pc[r] = "close"
   /\ conn' = [conn EXCEPT ![r] = "closed"]
   /\ rwd' = [rwd EXCEPT ![Local(r)] = <<>>]
   /\ pos' = [pos EXCEPT ![r] = 1]
   /\ pc' = [pc EXCEPT ![r] = "loop"]
   /\ UNCHANGED <<env, proc, distance_lib, health, data, user_lat, user_lon,
                  resources, fetched, calls, exc, responses>>

\* lines 87-102: one iteration of the for loop
ComputeDistance(r) ==
   /\ pc[r] = "loop"
   /\ pos[r] <= Len(resources[r])
   /\ LET resource == resources[r][pos[r]]
          distance == calculate_distance(distance_lib, user_lat[r], user_lon[r],
                                         resource.latitude, resource.longitude)
      IN  /\ calls' = [calls EXCEPT ![r] = @ + 1]
          /\ IF distance.raised # ""
             THEN /\ exc' = [exc EXCEPT ![r] = distance.raised]
                  /\ pc' = [pc EXCEPT ![r] = "except"]
                  /\ UNCHANGED <<rwd, pos>>
             ELSE /\ rwd' = [rwd EXCEPT ![Local(r)] =
                                Append(@, MakeEntry(resource, distance.value))]
                  /\ pos' = [pos EXCEPT ![r] = @ + 1]
                  /\ UNCHANGED <<exc, pc>>
   /\ UNCHANGED <<env, proc, distance_lib, health, data, user_lat, user_lon,
                  conn, resources, fetched, responses>>

\* line 105: the loop is exhausted, the list is sorted in place
Sort(r) ==
   /\ pc[r] = "loop"
   /\ pos[r] > Len(resources[r])
   /\ rwd' = [rwd EXCEPT ![Local(r)] = SortByDistance(@)]
   /\ pc' = [pc EXCEPT ![r] = "respond"]
   /\ UNCHANGED <<env, proc, distance_lib, health, data, user_lat, user_lon,
                  conn, resources, fetched, pos, calls, exc, responses>>

\* lines 107-114: the success response
Respond(r) ==
   /\ pc[r] = "respond"
   /\ responses' = [responses EXCEPT ![r] =
                       Append(@, Success(user_lat[r], user_lon[r], Top(rwd[Local(r)])))]
   /\ pc' = [pc EXCEPT ![r] = "done"]
   /\ UNCHANGED <<env, proc, distance_lib, health, data, user_lat, user_lon,
                  conn, resources, fetched, pos, calls, rwd, exc>>

\* Except with a handler that lets the exception escape: no response
ExceptEscapes(r) ==
   /\ pc[r] = "except"
   /\ pc' = [pc EXCEPT ![r] = "done"]
   /\ UNCHANGED <<env, proc, distance_lib, health, data, user_lat, user_lon,
                  conn, resources, fetched, pos, calls, rwd, exc, responses>>

\* lines 116-117: except Exception as e
Except(r) ==
   /\ pc[r] = "except"
   /\ responses' = [responses EXCEPT ![r] = Append(@, Failure(500, exc[r]))]
   /\ pc' = [pc EXCEPT ![r] = "done"]
   /\ UNCHANGED <<env, proc, distance_lib, health, data, user_lat, user_lon,
                  conn, resources, fetched, pos, calls, rwd, exc>>

\* a connection that was not closed is closed when the interpreter reclaims
\* it, some time after the call has returned
Finalize(r) ==
   /\ pc[r] = "done"
   /\ conn[r] = "open"
   /\ conn' = [conn EXCEPT ![r] = "closed"]
   /\ UNCHANGED <<env, proc, distance_lib, health, pc, data, user_lat, user_lon,
                  resources, fetched, pos, calls, rwd, exc, responses>>

Next ==
   \/ Import
   \/ health_check
   \/ \E r \in threads, body \in bodies : ParseRequest(r, body)
   \/ \E r \in threads : Connect(r)
   \/ \E r \in threads : Execute(r)
   \/ \E r \in threads : Close(r)
   \/ \E r \in threads : ComputeDistance(r)
   \/ \E r \in threads : Sort(r)
   \/ \E r \in threads : Respond(r)
   \/ \E r \in threads : Except(r)
   \/ \E r \in threads : Finalize(r)

Spec == Init /\ [][Next]_vars

SpecConc == InitConc /\ [][Next]_vars

-----------------------------------------------------------------------------
(* Properties *)

Done(r) == pc[r] = "done"

\* the request has returned the success response
Succeeded(r) == Done(r) /\ responses[r] # <<>> /\ responses[r][1].status = 200

\* the list 'resources' of the response
Out(r) == responses[r][1].resources

\* the distance from the requester of request r to the i-th row fetched
DistanceTo(r, i) ==
   calculate_distance(distance_lib, user_lat[r], user_lon[r],
                      resources[r][i].latitude, resources[r][i].longitude).value

\* the ids returned, and the position of an id in the response
OutIds(r) == {Out(r)[k].id : k \in 1..Len(Out(r))}
OutPos(r, id) == CHOOSE k \in 1..Len(Out(r)) : Out(r)[k].id = id

\* the latitude and longitude are numbers within [-90, 90] and [-180, 180]
InRange(lat, lon) ==
   /\ lat.kind = "num" /\ -90 <= lat.v /\ lat.v <= 90
   /\ lon.kind = "num" /\ -180 <= lon.v /\ lon.v <= 180

\* C1: the 'resources' list of a success response is non-decreasing in
\* 'distance': each entry's distance is at most the next entry's.
C1_Ordered ==
   \A r \in threads : Succeeded(r) =>
      \A k \in 1..(Len(Out(r)) - 1) : Out(r)[k].distance <= Out(r)[k + 1].distance

\* a success whose rows were fetched out of order and lie at different distances
C1_Witness ==
   \E r \in threads :
      /\ Succeeded(r)
      /\ Len(Out(r)) >= 3
      /\ \E i, j \in 1..Len(resources[r]) : i < j /\ DistanceTo(r, i) > DistanceTo(r, j)
      /\ Out(r)[1].distance < Out(r)[Len(Out(r))].distance

\* C2: two fetched rows at equal distance keep their fetched order in the
\* response, and when only one of them survives the truncation it is the
\* earlier one.
C2_Stable ==
   \A r \in threads : Succeeded(r) =>
      \A i, j \in 1..Len(resources[r]) :
         (i < j /\ DistanceTo(r, i) = DistanceTo(r, j)) =>
            /\ resources[r][j].id \in OutIds(r) => resources[r][i].id \in OutIds(r)
            /\ (resources[r][i].id \in OutIds(r) /\ resources[r][j].id \in OutIds(r))
                  => OutPos(r, resources[r][i].id) < OutPos(r, resources[r][j].id)

\* a success with two rows tied and both returned, and two rows tied of which
\* the truncation dropped the later
C2_Witness ==
   \E r \in threads :
      /\ Succeeded(r)
      /\ \E i, j \in 1..Len(resources[r]) :
            /\ i < j /\ DistanceTo(r, i) = DistanceTo(r, j)
            /\ resources[r][i].id \in OutIds(r) /\ resources[r][j].id \in OutIds(r)
      /\ \E i, j \in 1..Len(resources[r]) :
            /\ i < j /\ DistanceTo(r, i) = DistanceTo(r, j)
            /\ resources[r][i].id \in OutIds(r) /\ resources[r][j].id \notin OutIds(r)

\* C3: a success response holds min(10, number of rows fetched) entries; an
\* empty table gives a success response with an empty list.
C3_Truncated ==
   \A r \in threads :
      /\ Succeeded(r) =>
            Len(Out(r)) = (IF Len(resources[r]) < TopN THEN Len(resources[r]) ELSE TopN)
      /\ (Done(r) /\ fetched[r] /\ resources[r] = <<>>) => (Succeeded(r) /\ Out(r) = <<>>)

\* a success on a table of more than 10 rows
C3_Witness == \E r \in threads : Succeeded(r) /\ Len(resources[r]) > TopN

\* C4: the entries of a success response are distinct fetched rows, each with
\* its columns unchanged and the distance computed to that row, and no row
\* left out is strictly closer than a row returned.
C4_Closest ==
   \A r \in threads : Succeeded(r) =>
      /\ \A k \in 1..Len(Out(r)) :
            \E i \in 1..Len(resources[r]) :
               Out(r)[k] = (resources[r][i] @@ [distance |-> DistanceTo(r, i)])
      /\ \A k, l \in 1..Len(Out(r)) : k # l => Out(r)[k].id # Out(r)[l].id
      /\ \A i \in 1..Len(resources[r]) :
            resources[r][i].id \notin OutIds(r) =>
               \A k \in 1..Len(Out(r)) : DistanceTo(r, i) >= Out(r)[k].distance

\* a success that left out a row strictly farther than a row returned
C4_Witness ==
   \E r \in threads :
      /\ Succeeded(r)
      /\ \E i \in 1..Len(resources[r]) :
            /\ resources[r][i].id \notin OutIds(r)
            /\ \E k \in 1..Len(Out(r)) : DistanceTo(r, i) > Out(r)[k].distance

\* C5: a request whose latitude or longitude is missing or not a number is
\* answered with 400 'Invalid location data', without fetching the rows and
\* without calling calculate_distance.
C5_InvalidRejected ==
   \A r \in threads :
      (Done(r) /\ data[r].kind = "object"
         /\ (data[r].latitude.kind # "num" \/ data[r].longitude.kind # "num")) =>
            /\ responses[r] = << Failure(400, "Invalid location data") >>
            /\ ~fetched[r]
            /\ calls[r] = 0

\* C6: whatever the state of the library file, once the import is over the
\* process runs, distance_lib is None unless the library loaded with its
\* symbol, and requests are served.
C6_DegradeNotFail ==
   proc # "importing" =>
      /\ proc = "running"
      /\ distance_lib = (IF lib_file = "valid" THEN "CDLL" ELSE "None")

\* C7: calculate_distance_python raises nothing and returns a distance >= 0
\* for the requester and every fetched row, when both are in range.
C7_NoDomainError ==
   \A r \in threads :
      (fetched[r] /\ InRange(user_lat[r], user_lon[r])) =>
         \A i \in 1..Len(resources[r]) :
            InRange(resources[r][i].latitude, resources[r][i].longitude) =>
               LET d == calculate_distance_python(user_lat[r], user_lon[r],
                           resources[r][i].latitude, resources[r][i].longitude)
               IN  d.raised = "" /\ d.value >= 0

\* get_resources run alone, from the body to the response: the rows are
\* ranked by a function of the body, the table and the backend only
RECURSIVE FirstRaised(_, _)
FirstRaised(ds, i) ==
   IF i > Len(ds) THEN ""
   ELSE IF ds[i].raised # "" THEN ds[i].raised
   ELSE FirstRaised(ds, i + 1)

RunAlone(body, status, table, lib) ==
   IF body.kind = "malformed" THEN Failure(500, "400 Bad Request")
   ELSE IF body.kind = "null"
   THEN Failure(500, "'NoneType' object has no attribute 'get'")
   ELSE IF body.latitude = None \/ body.longitude = None
   THEN Failure(400, "Invalid location data")
   ELSE IF status = "unopenable" THEN Failure(500, "unable to open database file")
   ELSE IF status = "no_table" THEN Failure(500, "no such table: resources")
   ELSE LET ds == [i \in 1..Len(table) |->
                      calculate_distance(lib, body.latitude, body.longitude,
                                         table[i].latitude, table[i].longitude)]
            raised == FirstRaised(ds, 1)
        IN  IF raised # "" THEN Failure(500, raised)
            ELSE Success(body.latitude, body.longitude,
                         Top(SortByDistance([i \in 1..Len(table) |->
                                                MakeEntry(table[i], ds[i].value)])))

\* C8: under any interleaving of requests, each request's response is the
\* one it produces when run alone; the rows a request fetched stay the
\* table's rows and distance_lib keeps the value the import gave it.
C8_Independent ==
   /\ \A r \in threads :
         /\ Done(r) => responses[r] = << RunAlone(data[r], db_status, db, distance_lib) >>
         /\ fetched[r] => resources[r] = db
   /\ proc = "running" => distance_lib = (IF lib_file = "absent" THEN "None" ELSE "CDLL")

\* two requests with different bodies have both returned non-empty rankings
C8_Witness ==
   \E r, q \in threads :
      /\ r # q
      /\ Succeeded(r) /\ Succeeded(q)
      /\ data[r] # data[q]
      /\ Len(Out(r)) >= 2
      /\ Out(r) # Out(q)

\* C9: a request returns exactly one response, when it is done and not
\* before: 500 with the exception's message when a step raised, 400 with
\* 'Invalid location data' when a field is missing, and the success response
\* only when no step raised.
C9_OneResponse ==
   \A r \in threads :
      /\ Len(responses[r]) = (IF Done(r) THEN 1 ELSE 0)
      /\ Done(r) =>
            LET resp == responses[r][1]
            IN  /\ resp.status \in {200, 400, 500}
                /\ exc[r] # "" <=> resp.status = 500
                /\ resp.status = 500 => (resp.error = exc[r] /\ ~resp.success)
                /\ resp.status = 400 =>
                      /\ resp.error = "Invalid location data" /\ ~resp.success
                      /\ (user_lat[r] = None \/ user_lon[r] = None)
                /\ resp.status = 200 => (resp.success /\ resp.error = "")

\* a request whose distance computation raised has returned 500
C9_Witness ==
   \E r \in threads :
      /\ Done(r)
      /\ calls[r] > 0
      /\ exc[r] # ""
      /\ responses[r] = << Failure(500, exc[r]) >>

\* C10: when a request has returned, the connection it opened is closed, and
\* the 400 path opened none.
C10_ConnectionsClosed ==
   \A r \in threads :
      Done(r) =>
         /\ conn[r] # "open"
         /\ responses[r][1].status = 400 => conn[r] = "none"

====
